---- MODULE Spec2Model ----
(***************************************************************************)
(* A state-machine model of the pico-pal SSD1306 OLED driver               *)
(* (src/ssd1306/pal-ssd1306.cpp): the bit-packed screen buffer, the        *)
(* drawing primitives that mutate it, and the command framing that is sent *)
(* over the i2c bus.  The i2c transport is the only collaborator: every    *)
(* write_buffer call is one bus write that the transport accepts or        *)
(* rejects.                                                                *)
(***************************************************************************)
EXTENDS Integers, Sequences, FiniteSets, TLC

VARIABLES
  pc,                \* "new" before the constructor ran, "ready" after, "hang" inside a loop that never ends
  width,             \* uint8_t width
  height,            \* uint8_t height
  pagesize,          \* uint8_t pagesize
  external_vcc,      \* bool external_vcc
  screen_buffer,     \* uint8_t *screen_buffer: [0 .. screen_buffer_sz-1 -> 0..255]
  screen_buffer_sz,  \* size_t screen_buffer_sz
  bus,               \* the bus writes the most recent operation issued, in order
  ret,               \* what the most recent write_cmd call returned
  last,              \* the most recent operation: its name, arguments and the buffer before it
  prev,              \* the operation before that
  nops               \* operations performed since construction

vars == <<pc, width, height, pagesize, external_vcc, screen_buffer,
          screen_buffer_sz, bus, ret, last, prev, nops>>

(***************************************************************************)
(* Bounds of the model.                                                    *)
(***************************************************************************)
\* operations performed on one display after its construction
MaxOps == 2
\* device-control operations performed on one display in SpecBus
MaxBusOps == 1
\* pixel operations performed on one display in SpecPixel
MaxPixelOps == 2
\* operations performed on one display in SpecText
MaxTextOps == 1
\* operations performed on one display in SpecBox
MaxBoxOps == 2
\* lines drawn on one display in SpecLine
MaxLineOps == 1
\* the line end points lie within MaxLineCoord of either end of the co-ordinate range
MaxLineCoord == 1
\* the transport may reject any of the first MaxFailIdx bus writes of an operation
MaxFailIdx == 7
\* bus writes of one operation the transport may reject
MaxFaults == 1
\* iterations after which a draw_line loop is taken never to end
MaxLineIter == 600
\* length of the long text handed to draw_text
MaxTextLen == 44

(***************************************************************************)
(* ssd1306_cmd_t                                                           *)
(***************************************************************************)
MEMORYMODE == 32
COLUMNADDR == 33
PAGEADDR == 34
SETSTARTLINE == 64
SETCONTRAST == 129
CHARGEPUMP == 141
SEGREMAP == 161
DISPLAYALLON == 164
NORMALDISPLAY == 166
INVERTDISPLAY == 167
SETMULTIPLEX == 168
DISPLAYOFF == 174
DISPLAYON == 175
COMSCANDEC == 200
SETDISPLAYOFFSET == 211
SETDISPLAYCLOCKDIV == 213
SETPRECHARGE == 217
SETCOMPINS == 218
SETVCOMDETECT == 219

(***************************************************************************)
(* Fixed-width integer arithmetic.                                         *)
(***************************************************************************)
\* conversion of an int to uint8_t
U8(v) == v % 256

Bit(v, i) == (v \div (2 ^ i)) % 2

RECURSIVE Or8From(_, _, _)
Or8From(a, b, i) ==
  IF i > 7 THEN 0
  ELSE (IF Bit(a, i) = 1 \/ Bit(b, i) = 1 THEN 2 ^ i ELSE 0) + Or8From(a, b, i + 1)

\* a | b on bytes
Or8(a, b) == Or8From(a, b, 0)

RECURSIVE And8From(_, _, _)
And8From(a, b, i) ==
  IF i > 7 THEN 0
  ELSE (IF Bit(a, i) = 1 /\ Bit(b, i) = 1 THEN 2 ^ i ELSE 0) + And8From(a, b, i + 1)

\* a & b on bytes
And8(a, b) == And8From(a, b, 0)

\* (uint8_t) ~m for a byte m
Not8(m) == 255 - m

Abs(v) == IF v < 0 THEN -v ELSE v

(***************************************************************************)
(* The glyph table of draw_char: 96 entries of 5 column bytes, the         *)
(* printable characters 0x20..0x7E followed by the undefined glyph.        *)
(***************************************************************************)
l_font ==
  <<
     <<  0,   0,   0,   0,   0>>, <<  0,   0, 125,   0,   0>>, <<  0, 112,   0, 112,   0>>, << 20, 127,  20, 127,  20>>,
     << 18,  42, 127,  42,  36>>, << 98, 100,   8,  19,  35>>, << 54,  73,  85,  34,   5>>, <<  0,   0,  96,   0,   0>>,
     <<  0,  28,  34,  65,   0>>, <<  0,  65,  34,  28,   0>>, << 20,   8,  62,   8,  20>>, <<  8,   8,  62,   8,   8>>,
     <<  0,   5,   6,   0,   0>>, <<  8,   8,   8,   8,   8>>, <<  0,   3,   3,   0,   0>>, <<  2,   4,   8,  16,  32>>,
     << 62,  69,  73,  81,  62>>, <<  0,  33, 127,   1,   0>>, << 35,  69,  73,  73,  49>>, << 34,  65,  73,  73,  54>>,
     << 12,  20,  36, 127,   4>>, <<114,  81,  81,  81,  78>>, << 30,  41,  73,  73,   6>>, << 64,  71,  72,  80,  96>>,
     << 54,  73,  73,  73,  54>>, << 48,  73,  73,  74,  60>>, <<  0,  54,  54,   0,   0>>, <<  0,  53,  54,   0,   0>>,
     <<  8,  20,  34,  65,   0>>, << 20,  20,  20,  20,  20>>, <<  0,  65,  34,  20,   8>>, << 32,  64,  69,  72,  48>>,
     << 38,  73,  79,  65,  62>>, << 31,  36,  68,  36,  31>>, << 65, 127,  73,  73,  54>>, << 62,  65,  65,  65,  34>>,
     << 65, 127,  65,  65,  62>>, <<127,  73,  73,  73,  65>>, <<127,  72,  72,  72,  64>>, << 62,  65,  65,  73,  47>>,
     <<127,   8,   8,   8, 127>>, <<  0,  65, 127,  65,   0>>, <<  2,   1,  65, 126,  64>>, <<127,   8,  20,  34,  65>>,
     <<127,   1,   1,   1,   1>>, <<127,  32,  24,  32, 127>>, <<127,  16,   8,   4, 127>>, << 62,  65,  65,  65,  62>>,
     <<127,  72,  72,  72,  48>>, << 62,  65,  69,  66,  61>>, <<127,  72,  76,  74,  49>>, << 50,  73,  73,  73,  38>>,
     << 64,  64, 127,  64,  64>>, <<126,   1,   1,   1, 126>>, <<124,   2,   1,   2, 124>>, <<126,   1,  14,   1, 126>>,
     << 99,  20,   8,  20,  99>>, <<112,   8,   7,   8, 112>>, << 67,  69,  73,  81,  97>>, <<  0, 127,  65,  65,   0>>,
     << 32,  16,   8,   4,   2>>, <<  0,  65,  65, 127,   0>>, << 16,  32,  64,  32,  16>>, <<  1,   1,   1,   1,   1>>,
     <<  0,  64,  32,  16,   0>>, <<  2,  21,  21,  21,  15>>, <<127,   9,  17,  17,  14>>, << 14,  17,  17,  17,   2>>,
     << 14,  17,  17,   9, 127>>, << 14,  21,  21,  21,  12>>, <<  8,  63,  72,  64,  32>>, <<  8,  21,  21,  21,  30>>,
     <<127,   8,  16,  16,  15>>, <<  0,   9,  95,   1,   0>>, <<  2,   1,  17,  94,   0>>, <<127,   4,  10,  17,   0>>,
     <<  0,  65, 127,   1,   0>>, << 31,  16,  15,  16,  15>>, << 31,   8,  16,  16,  15>>, << 14,  17,  17,  17,  14>>,
     << 31,  20,  20,  20,   8>>, <<  8,  20,  20,  12,  31>>, << 31,   8,  16,  16,   8>>, <<  9,  21,  21,  21,   2>>,
     << 16, 126,  17,   1,   2>>, << 30,   1,   1,   2,  31>>, << 28,   2,   1,   2,  28>>, << 30,   1,   6,   1,  30>>,
     << 17,  10,   4,  10,  17>>, << 24,   5,   5,   5,  30>>, << 17,  19,  21,  25,  17>>, <<  0,   8,  54,  65,   0>>,
     <<  0,   0, 127,   0,   0>>, <<  0,  65,  54,   8,   0>>, <<  4,   8,   8,   4,   8>>, <<  6,   9,  81,   1,   2>>
  >>

\* number of entries of l_font
FontEntries == Len(l_font)

\* What l_font[l_char] reads.  An index past the table reads whatever lies
\* behind it in memory: junk, five bytes the caller of the model chooses.
FontRow(l_char, junk) ==
  IF l_char < FontEntries THEN l_font[l_char + 1] ELSE junk

\* conversion of an int to int16_t
I16(v) == ((v + 32768) % 65536) - 32768

(***************************************************************************)
(* Pixel primitives.  Each takes the screen buffer and returns it as the   *)
(* call leaves it.  screen_ptr points one byte into screen_buffer.         *)
(***************************************************************************)
ScreenPtr == 1

\* the index as it would be without the page of the pixel
PixelIndex_no_page(p_x, p_y) == p_x

\* (width*(p_y>>3))+p_x
PixelIndex(p_x, p_y) == (width * (p_y \div 8)) + p_x

\* 0x01<<(p_y&0x07)
PixelMask(p_y) == 2 ^ And8(p_y, 7)

\* the sanity check of the co-ordinates
OffScreen(p_x, p_y) == (p_x >= width) \/ (p_y >= height)

set_pixel(buf, p_x, p_y) ==
  IF OffScreen(p_x, p_y) THEN buf
  ELSE [buf EXCEPT ![ScreenPtr + PixelIndex(p_x, p_y)] = Or8(@, PixelMask(p_y))]

\* clear_pixel as it would be with the mask not complemented
clear_pixel_no_complement(buf, p_x, p_y) ==
  IF OffScreen(p_x, p_y) THEN buf
  ELSE [buf EXCEPT ![ScreenPtr + PixelIndex(p_x, p_y)] = And8(@, PixelMask(p_y))]

clear_pixel(buf, p_x, p_y) ==
  IF OffScreen(p_x, p_y) THEN buf
  ELSE [buf EXCEPT ![ScreenPtr + PixelIndex(p_x, p_y)] = And8(@, Not8(PixelMask(p_y)))]

\* if ( p_set ) set_pixel(...) else clear_pixel(...)
PutPixel(buf, p_x, p_y, p_set) ==
  IF p_set THEN set_pixel(buf, p_x, p_y) ELSE clear_pixel(buf, p_x, p_y)

(***************************************************************************)
(* Loops.  A loop of the source is modelled by its body, an operator from  *)
(* the loop's variables to the loop's variables that leaves them alone     *)
(* once the loop has ended, applied as many times as the loop may turn.    *)
(* The passes are split in halves so that the evaluation stays shallow.    *)
(***************************************************************************)

(***************************************************************************)
(* draw_line: the deltas and slopes, then the stepping loop.  The result   *)
(* records where the loop stood when it ended, and done = FALSE when it    *)
(* had not ended after MaxLineIter passes.                                 *)
(***************************************************************************)
\* the deltas and slopes as they would be with l_sy worked out from the x co-ordinates
LineSetup_sy_from_x(p_x1, p_y1, p_x2, p_y2, p_set) ==
  [ dx  |-> I16(Abs(p_x2 - p_x1)),
    dy  |-> I16(Abs(p_y2 - p_y1) * (-1)),
    sx  |-> IF p_x1 < p_x2 THEN 1 ELSE -1,
    sy  |-> IF p_x1 < p_x2 THEN 1 ELSE -1,
    x2  |-> p_x2,
    y2  |-> p_y2,
    set |-> p_set ]

LineSetup(p_x1, p_y1, p_x2, p_y2, p_set) ==
  [ dx  |-> I16(Abs(p_x2 - p_x1)),
    dy  |-> I16(Abs(p_y2 - p_y1) * (-1)),
    sx  |-> IF p_x1 < p_x2 THEN 1 ELSE -1,
    sy  |-> IF p_y1 < p_y2 THEN 1 ELSE -1,
    x2  |-> p_x2,
    y2  |-> p_y2,
    set |-> p_set ]

\* "work out the next step": the new l_x, l_y and l_err
LineStep(l_x, l_y, l_err, c) ==
  LET l_e2  == I16(l_err * 2)
      stepx == l_e2 >= c.dy
      err1  == IF stepx THEN I16(l_err + c.dy) ELSE l_err
      x1    == IF stepx THEN U8(l_x + c.sx) ELSE l_x
      stepy == l_e2 <= c.dx
      err2  == IF stepy THEN I16(err1 + c.dx) ELSE err1
      y1    == IF stepy THEN U8(l_y + c.sy) ELSE l_y
  IN  [x |-> x1, y |-> y1, err |-> err2]

\* one pass through the body of while( true )
LinePass(s, c) ==
  IF s.done THEN s
  ELSE LET drawn == PutPixel(s.buf, s.x, s.y, c.set)
       IN  IF s.x = c.x2 /\ s.y = c.y2
             THEN [s EXCEPT !.buf = drawn, !.done = TRUE]
             ELSE LET n == LineStep(s.x, s.y, s.err, c)
                  IN  [buf |-> drawn, x |-> n.x, y |-> n.y, err |-> n.err,
                       done |-> FALSE, iter |-> s.iter + 1]

RECURSIVE LineLoop(_, _, _)
LineLoop(s, c, n) ==
  IF n <= 0 THEN s
  ELSE IF n = 1 THEN LinePass(s, c)
  ELSE LET half == LineLoop(s, c, n \div 2)
       IN  IF half.done THEN half ELSE LineLoop(half, c, n - (n \div 2))

draw_line(buf, p_x1, p_y1, p_x2, p_y2, p_set) ==
  LET c == LineSetup(p_x1, p_y1, p_x2, p_y2, p_set)
  IN  LineLoop([buf |-> buf, x |-> p_x1, y |-> p_y1, err |-> I16(c.dx + c.dy),
                done |-> FALSE, iter |-> 0], c, MaxLineIter)

(***************************************************************************)
(* draw_box.  The filled branch counts l_index, a uint8_t, down from       *)
(* p_y+p_height+1 to p_y and calls draw_line without p_set; the outline    *)
(* branch draws the four edges with p_set.  done = FALSE when a draw_line  *)
(* call did not return.                                                    *)
(***************************************************************************)
\* one pass through the for loop of the filled branch; s.more is the loop still turning
BoxRowPass(s, p_x, p_y, p_width) ==
  IF ~s.more \/ ~s.done THEN s
  ELSE IF ~(s.index > p_y) THEN [s EXCEPT !.more = FALSE]
  ELSE LET r == draw_line(s.buf, p_x, U8(s.index - 1), U8(p_x + p_width), U8(s.index - 1), TRUE)
       IN  [buf |-> r.buf, index |-> U8(s.index - 1), more |-> TRUE, done |-> r.done]

RECURSIVE BoxRows(_, _, _, _, _)
BoxRows(s, p_x, p_y, p_width, n) ==
  IF n <= 0 THEN s
  ELSE IF n = 1 THEN BoxRowPass(s, p_x, p_y, p_width)
  ELSE LET half == BoxRows(s, p_x, p_y, p_width, n \div 2)
       IN  IF ~half.more THEN half ELSE BoxRows(half, p_x, p_y, p_width, n - (n \div 2))

\* a uint8_t counting down to p_y leaves the loop within 256 passes and one more test
BoxFilled(buf, p_x, p_y, p_width, p_height) ==
  BoxRows([buf |-> buf, index |-> U8(p_y + p_height + 1), more |-> TRUE, done |-> TRUE],
          p_x, p_y, p_width, 257)

BoxEdges(buf, p_x, p_y, p_width, p_height, p_set) ==
  LET e1 == draw_line(buf, p_x, p_y, U8(p_x + p_width), p_y, p_set)
      e2 == draw_line(e1.buf, p_x, U8(p_y + p_height), U8(p_x + p_width), U8(p_y + p_height), p_set)
      e3 == draw_line(e2.buf, p_x, p_y, p_x, U8(p_y + p_height), p_set)
      e4 == draw_line(e3.buf, U8(p_x + p_width), p_y, U8(p_x + p_width), U8(p_y + p_height), p_set)
  IN  IF ~e1.done THEN [buf |-> e1.buf, done |-> FALSE]
      ELSE IF ~e2.done THEN [buf |-> e2.buf, done |-> FALSE]
      ELSE IF ~e3.done THEN [buf |-> e3.buf, done |-> FALSE]
      ELSE [buf |-> e4.buf, done |-> e4.done]

draw_box(buf, p_x, p_y, p_width, p_height, p_filled, p_set) ==
  IF p_filled
    THEN LET r == BoxFilled(buf, p_x, p_y, p_width, p_height)
         IN  [buf |-> r.buf, done |-> r.done]
    ELSE BoxEdges(buf, p_x, p_y, p_width, p_height, p_set)

(***************************************************************************)
(* draw_char and draw_text.  A character is a code 0..255; a text is the   *)
(* sequence of the codes before its terminating NUL.                       *)
(***************************************************************************)
\* uint8_t l_char = ( p_char < 0x20 || p_char > 0x7E ) ? 0x7F : p_char - 0x20
GlyphIndex(p_char) == IF p_char < 32 \/ p_char > 126 THEN 127 ELSE p_char - 32

\* the bit test with bit 0 taken as the top row of the cell
GlyphBit_bit0_top(row, l_x, l_y) == And8(2 ^ l_y, row[l_x + 1]) # 0

\* ( 0x01 << ( 6 - l_y ) ) & l_font[l_char][l_x]
GlyphBit(row, l_x, l_y) == And8(2 ^ (6 - l_y), row[l_x + 1]) # 0

\* one pass through the body of the nested loops over l_x and l_y
CharPass(s, p_x, p_y, row, p_set) ==
  IF ~s.more THEN s
  ELSE IF ~(s.x < 5) THEN [s EXCEPT !.more = FALSE]
  ELSE LET drawn == IF GlyphBit(row, s.x, s.y)
                      THEN PutPixel(s.buf, U8(p_x + s.x), U8(p_y + s.y), p_set)
                      ELSE s.buf
       IN  IF s.y + 1 < 7
             THEN [buf |-> drawn, x |-> s.x, y |-> s.y + 1, more |-> TRUE]
             ELSE [buf |-> drawn, x |-> s.x + 1, y |-> 0, more |-> TRUE]

RECURSIVE CharLoop(_, _, _, _, _, _)
CharLoop(s, p_x, p_y, row, p_set, n) ==
  IF n <= 0 THEN s
  ELSE IF n = 1 THEN CharPass(s, p_x, p_y, row, p_set)
  ELSE LET half == CharLoop(s, p_x, p_y, row, p_set, n \div 2)
       IN  IF ~half.more THEN half ELSE CharLoop(half, p_x, p_y, row, p_set, n - (n \div 2))

\* 5 * 7 cells and the test that leaves the loops
draw_char(buf, p_x, p_y, p_char, p_set, junk) ==
  CharLoop([buf |-> buf, x |-> 0, y |-> 0, more |-> TRUE],
           p_x, p_y, FontRow(GlyphIndex(p_char), junk), p_set, (5 * 7) + 1).buf

\* one pass through the loop over l_index
TextPass(s, p_x, p_y, p_text, p_set, junk) ==
  IF ~s.more THEN s
  ELSE IF ~(s.index < Len(p_text)) THEN [s EXCEPT !.more = FALSE]
  ELSE [buf   |-> draw_char(s.buf, U8(p_x + (s.index * 6)), p_y, p_text[s.index + 1], p_set, junk),
        index |-> s.index + 1,
        more  |-> TRUE]

RECURSIVE TextLoop(_, _, _, _, _, _, _)
TextLoop(s, p_x, p_y, p_text, p_set, junk, n) ==
  IF n <= 0 THEN s
  ELSE IF n = 1 THEN TextPass(s, p_x, p_y, p_text, p_set, junk)
  ELSE LET half == TextLoop(s, p_x, p_y, p_text, p_set, junk, n \div 2)
       IN  IF ~half.more THEN half ELSE TextLoop(half, p_x, p_y, p_text, p_set, junk, n - (n \div 2))

\* l_strlen characters and the test that leaves the loop
draw_text(buf, p_x, p_y, p_text, p_set, junk) ==
  TextLoop([buf |-> buf, index |-> 0, more |-> TRUE],
           p_x, p_y, p_text, p_set, junk, Len(p_text) + 1).buf

(***************************************************************************)
(* The bus.  A log is the sequence of bus writes an operation has issued   *)
(* so far; fails is the set of positions in that sequence at which the     *)
(* transport rejects the write (i2c_write_blocking returns no byte count). *)
(***************************************************************************)
write_buffer(log, fails, p_buffer) ==
  LET ok == (Len(log) + 1) \notin fails
  IN  [bus |-> Append(log, [data |-> p_buffer, ok |-> ok]), ok |-> ok]

\* write_cmd as it would be if it did not look at the result of a flush
write_cmd_no_stop(log, fails, p_cmd, p_arg1, p_arg2) ==
  LET b0   == <<0, p_cmd>>
      w1   == write_buffer(log, fails, b0)
      log1 == IF p_arg1 >= 0 THEN w1.bus ELSE log
      b1   == IF p_arg1 >= 0 THEN <<0, And8(U8(p_arg1), 255)>> ELSE b0
      w2   == write_buffer(log1, fails, b1)
      log2 == IF p_arg2 >= 0 THEN w2.bus ELSE log1
      b2   == IF p_arg2 >= 0 THEN <<0, And8(U8(p_arg2), 255)>> ELSE b1
  IN  write_buffer(log2, fails, b2)

write_cmd(log, fails, p_cmd, p_arg1, p_arg2) ==
  LET b0 == <<0, p_cmd>>
      w1 == write_buffer(log, fails, b0)
  IN  IF p_arg1 >= 0 /\ ~w1.ok THEN [bus |-> w1.bus, ok |-> FALSE]
      ELSE
        LET log1 == IF p_arg1 >= 0 THEN w1.bus ELSE log
            b1   == IF p_arg1 >= 0 THEN <<0, And8(U8(p_arg1), 255)>> ELSE b0
            w2   == write_buffer(log1, fails, b1)
        IN  IF p_arg2 >= 0 /\ ~w2.ok THEN [bus |-> w2.bus, ok |-> FALSE]
            ELSE
              LET log2 == IF p_arg2 >= 0 THEN w2.bus ELSE log1
                  b2   == IF p_arg2 >= 0 THEN <<0, And8(U8(p_arg2), 255)>> ELSE b1
              IN  write_buffer(log2, fails, b2)

\* the optional-argument sentinel of write_cmd's declaration
NoArg == -1

(***************************************************************************)
(* The constructor: the fields, the buffer as operator new leaves it       *)
(* (garbage: nothing initialises it), and the sixteen initialisation       *)
(* commands, whose results the constructor does not look at.               *)
(***************************************************************************)
\* what an uninitialised buffer of n bytes may hold
Uninitialised(n, garbage) == [i \in 0 .. (n - 1) |-> U8(garbage[1] + (i * garbage[2]))]

\* the initialisation commands with the charge pump configured after display-on
CtorCmds_pump_late(p_height, p_ext_vcc, fails) ==
  LET c1  == write_cmd(<<>>,    fails, DISPLAYOFF, NoArg, NoArg)
      c2  == write_cmd(c1.bus,  fails, SETDISPLAYCLOCKDIV, 128, NoArg)
      c3  == write_cmd(c2.bus,  fails, SETMULTIPLEX, p_height - 1, NoArg)
      c4  == write_cmd(c3.bus,  fails, SETDISPLAYOFFSET, 0, NoArg)
      c5  == write_cmd(c4.bus,  fails, SETSTARTLINE, NoArg, NoArg)
      c7  == write_cmd(c5.bus,  fails, MEMORYMODE, 0, NoArg)
      c8  == write_cmd(c7.bus,  fails, SEGREMAP, NoArg, NoArg)
      c9  == write_cmd(c8.bus,  fails, COMSCANDEC, NoArg, NoArg)
      c10 == write_cmd(c9.bus,  fails, SETCOMPINS, IF p_height = 64 THEN 18 ELSE 2, NoArg)
      c11 == write_cmd(c10.bus, fails, SETCONTRAST, 255, NoArg)
      c12 == write_cmd(c11.bus, fails, SETPRECHARGE, IF p_ext_vcc THEN 34 ELSE 241, NoArg)
      c13 == write_cmd(c12.bus, fails, SETVCOMDETECT, 64, NoArg)
      c14 == write_cmd(c13.bus, fails, DISPLAYALLON, NoArg, NoArg)
      c15 == write_cmd(c14.bus, fails, NORMALDISPLAY, NoArg, NoArg)
      c16 == write_cmd(c15.bus, fails, DISPLAYON, NoArg, NoArg)
  IN  write_cmd(c16.bus, fails, CHARGEPUMP, IF p_ext_vcc THEN 16 ELSE 20, NoArg)

CtorCmds(p_height, p_ext_vcc, fails) ==
  LET c1  == write_cmd(<<>>,    fails, DISPLAYOFF, NoArg, NoArg)
      c2  == write_cmd(c1.bus,  fails, SETDISPLAYCLOCKDIV, 128, NoArg)
      c3  == write_cmd(c2.bus,  fails, SETMULTIPLEX, p_height - 1, NoArg)
      c4  == write_cmd(c3.bus,  fails, SETDISPLAYOFFSET, 0, NoArg)
      c5  == write_cmd(c4.bus,  fails, SETSTARTLINE, NoArg, NoArg)
      c6  == write_cmd(c5.bus,  fails, CHARGEPUMP, IF p_ext_vcc THEN 16 ELSE 20, NoArg)
      c7  == write_cmd(c6.bus,  fails, MEMORYMODE, 0, NoArg)
      c8  == write_cmd(c7.bus,  fails, SEGREMAP, NoArg, NoArg)
      c9  == write_cmd(c8.bus,  fails, COMSCANDEC, NoArg, NoArg)
      c10 == write_cmd(c9.bus,  fails, SETCOMPINS, IF p_height = 64 THEN 18 ELSE 2, NoArg)
      c11 == write_cmd(c10.bus, fails, SETCONTRAST, 255, NoArg)
      c12 == write_cmd(c11.bus, fails, SETPRECHARGE, IF p_ext_vcc THEN 34 ELSE 241, NoArg)
      c13 == write_cmd(c12.bus, fails, SETVCOMDETECT, 64, NoArg)
      c14 == write_cmd(c13.bus, fails, DISPLAYALLON, NoArg, NoArg)
      c15 == write_cmd(c14.bus, fails, NORMALDISPLAY, NoArg, NoArg)
  IN  write_cmd(c15.bus, fails, DISPLAYON, NoArg, NoArg)

CtorState(p_width, p_height, p_ext_vcc, garbage, fails) ==
  LET l_pagesize == U8((p_height + 7) \div 8)
      l_sz       == (p_width * l_pagesize) + 1
      sent       == CtorCmds(p_height, p_ext_vcc, fails)
  IN  [ width            |-> p_width,
        height           |-> p_height,
        external_vcc     |-> p_ext_vcc,
        pagesize         |-> l_pagesize,
        screen_buffer_sz |-> l_sz,
        screen_buffer    |-> Uninitialised(l_sz, garbage),
        bus              |-> sent.bus,
        ret              |-> sent.ok ]

(***************************************************************************)
(* The operations as actions.  Every action records itself in last.        *)
(***************************************************************************)
NoOp == [op |-> "none", args |-> <<>>, pre |-> <<>>, fails |-> {}, res |-> <<>>]

NoPrev == [op |-> "none", args |-> <<>>, pre |-> <<>>]

Record(op, args, fails, res) ==
  /\ last' = [op |-> op, args |-> args, pre |-> screen_buffer, fails |-> fails, res |-> res]
  /\ prev' = [op |-> last.op, args |-> last.args, pre |-> last.pre]
  /\ nops' = nops + 1

Geometry == <<width, height, pagesize, external_vcc, screen_buffer_sz>>

SSD1306(p_width, p_height, p_ext_vcc, garbage, fails) ==
  /\ pc = "new"
  /\ \E s \in {CtorState(p_width, p_height, p_ext_vcc, garbage, fails)} :
         /\ width' = s.width
         /\ height' = s.height
         /\ external_vcc' = s.external_vcc
         /\ pagesize' = s.pagesize
         /\ screen_buffer_sz' = s.screen_buffer_sz
         /\ screen_buffer' = s.screen_buffer
         /\ bus' = s.bus
         /\ ret' = s.ret
  /\ pc' = "ready"
  /\ last' = [op |-> "SSD1306", args |-> <<p_width, p_height, p_ext_vcc>>,
              pre |-> <<>>, fails |-> fails, res |-> <<>>]
  /\ prev' = NoPrev
  /\ nops' = 0

WriteCmd(p_cmd, p_arg1, p_arg2, fails) ==
  /\ pc = "ready"
  /\ \E r \in {write_cmd(<<>>, fails, p_cmd, p_arg1, p_arg2)} :
       bus' = r.bus /\ ret' = r.ok
  /\ Record("write_cmd", <<p_cmd, p_arg1, p_arg2>>, fails, <<>>)
  /\ UNCHANGED <<pc, Geometry, screen_buffer>>

Clear ==
  /\ pc = "ready"
  /\ screen_buffer' = [i \in 0 .. (screen_buffer_sz - 1) |-> 0]
  /\ bus' = <<>>
  /\ Record("clear", <<>>, {}, <<>>)
  /\ UNCHANGED <<pc, Geometry, ret>>

\* the bytes write_buffer( p_buffer, p_length ) hands to the transport
Bytes(buf, p_length) == [i \in 1 .. p_length |-> buf[i - 1]]

\* render as it would be if the data prefix were only stored at construction
render_no_prefix(buf, fails) ==
  LET c1 == write_cmd(<<>>, fails, PAGEADDR, 0, pagesize - 1)
      c2 == write_cmd(c1.bus, fails, COLUMNADDR, 0, width - 1)
      w  == write_buffer(c2.bus, fails, Bytes(buf, screen_buffer_sz))
  IN  [buf |-> buf, bus |-> w.bus, ok |-> c2.ok]

\* render: the two range commands, whose results it does not look at, then
\* the data prefix stored in screen_buffer[0] and the whole buffer written
render(buf, fails) ==
  LET c1   == write_cmd(<<>>, fails, PAGEADDR, 0, pagesize - 1)
      c2   == write_cmd(c1.bus, fails, COLUMNADDR, 0, width - 1)
      buf1 == [buf EXCEPT ![0] = 64]
      w    == write_buffer(c2.bus, fails, Bytes(buf1, screen_buffer_sz))
  IN  [buf |-> buf1, bus |-> w.bus, ok |-> c2.ok]

Render(fails) ==
  /\ pc = "ready"
  /\ \E r \in {render(screen_buffer, fails)} :
       /\ screen_buffer' = r.buf
       /\ bus' = r.bus
       /\ ret' = r.ok
  /\ Record("render", <<>>, fails, <<>>)
  /\ UNCHANGED <<pc, Geometry>>

SetContrast(p_contrast, fails) ==
  /\ pc = "ready"
  /\ \E r \in {write_cmd(<<>>, fails, SETCONTRAST, p_contrast, NoArg)} :
       bus' = r.bus /\ ret' = r.ok
  /\ Record("set_contrast", <<p_contrast>>, fails, <<>>)
  /\ UNCHANGED <<pc, Geometry, screen_buffer>>

SetInvert(p_invert, fails) ==
  /\ pc = "ready"
  /\ \E r \in {IF p_invert
                  THEN write_cmd(<<>>, fails, INVERTDISPLAY, NoArg, NoArg)
                  ELSE write_cmd(<<>>, fails, NORMALDISPLAY, NoArg, NoArg)} :
       bus' = r.bus /\ ret' = r.ok
  /\ Record("set_invert", <<p_invert>>, fails, <<>>)
  /\ UNCHANGED <<pc, Geometry, screen_buffer>>

SetPixel(p_x, p_y) ==
  /\ pc = "ready"
  /\ screen_buffer' = set_pixel(screen_buffer, p_x, p_y)
  /\ bus' = <<>>
  /\ Record("set_pixel", <<p_x, p_y>>, {}, <<>>)
  /\ UNCHANGED <<pc, Geometry, ret>>

ClearPixel(p_x, p_y) ==
  /\ pc = "ready"
  /\ screen_buffer' = clear_pixel(screen_buffer, p_x, p_y)
  /\ bus' = <<>>
  /\ Record("clear_pixel", <<p_x, p_y>>, {}, <<>>)
  /\ UNCHANGED <<pc, Geometry, ret>>

DrawLine(p_x1, p_y1, p_x2, p_y2, p_set) ==
  /\ pc = "ready"
  /\ \E r \in {draw_line(screen_buffer, p_x1, p_y1, p_x2, p_y2, p_set)} :
         /\ screen_buffer' = r.buf
         /\ pc' = IF r.done THEN "ready" ELSE "hang"
         /\ Record("draw_line", <<p_x1, p_y1, p_x2, p_y2, p_set>>, {}, <<r.done, r.x, r.y, r.iter>>)
  /\ bus' = <<>>
  /\ UNCHANGED <<Geometry, ret>>

DrawBox(p_x, p_y, p_width, p_height, p_filled, p_set) ==
  /\ pc = "ready"
  /\ \E r \in {draw_box(screen_buffer, p_x, p_y, p_width, p_height, p_filled, p_set)} :
         /\ screen_buffer' = r.buf
         /\ pc' = IF r.done THEN "ready" ELSE "hang"
         /\ Record("draw_box", <<p_x, p_y, p_width, p_height, p_filled, p_set>>, {}, <<r.done>>)
  /\ bus' = <<>>
  /\ UNCHANGED <<Geometry, ret>>

DrawChar(p_x, p_y, p_char, p_set, junk) ==
  /\ pc = "ready"
  /\ screen_buffer' = draw_char(screen_buffer, p_x, p_y, p_char, p_set, junk)
  /\ bus' = <<>>
  /\ Record("draw_char", <<p_x, p_y, p_char, p_set, junk>>, {}, <<>>)
  /\ UNCHANGED <<pc, Geometry, ret>>

DrawText(p_x, p_y, p_text, p_set, junk) ==
  /\ pc = "ready"
  /\ screen_buffer' = draw_text(screen_buffer, p_x, p_y, p_text, p_set, junk)
  /\ bus' = <<>>
  /\ Record("draw_text", <<p_x, p_y, p_text, p_set, junk>>, {}, <<>>)
  /\ UNCHANGED <<pc, Geometry, ret>>

(***************************************************************************)
(* Specifications.  Each draws the operations' inputs from small sets.     *)
(***************************************************************************)
\* a transport that rejects at most MaxFaults of an operation's first MaxFailIdx writes
FailSets == {S \in SUBSET (1 .. MaxFailIdx) : Cardinality(S) <= MaxFaults}

InitNew ==
  /\ pc = "new"
  /\ width = 0
  /\ height = 0
  /\ pagesize = 0
  /\ external_vcc = FALSE
  /\ screen_buffer = <<>>
  /\ screen_buffer_sz = 0
  /\ bus = <<>>
  /\ ret = TRUE
  /\ last = NoOp
  /\ prev = NoPrev
  /\ nops = 0

\* the state the constructor leaves, for its inputs drawn from the given sets
InitReady(geometries, exts, garbages, failsets) ==
  \E g \in geometries, e \in exts, u \in garbages, f \in failsets :
    \E s \in {CtorState(g[1], g[2], e, u, f)} :
        /\ pc = "ready"
        /\ width = s.width
        /\ height = s.height
        /\ pagesize = s.pagesize
        /\ external_vcc = s.external_vcc
        /\ screen_buffer = s.screen_buffer
        /\ screen_buffer_sz = s.screen_buffer_sz
        /\ bus = s.bus
        /\ ret = s.ret
        /\ last = [op |-> "SSD1306", args |-> <<g[1], g[2], e>>,
                   pre |-> <<>>, fails |-> f, res |-> <<>>]
        /\ prev = NoPrev
        /\ nops = 0

(***************************************************************************)
(* SpecBus: construction and the device-control operations.                *)
(***************************************************************************)
BusGeometries == {<<16, 32>>, <<16, 64>>}
BusCmds == {PAGEADDR, SETCONTRAST}
BusArgs == {0, 255}
\* a command has at most three units; only their writes can be rejected
CmdFailSets == {S \in FailSets : S \subseteq 1 .. 3}

NextBus ==
  \/ \E g \in BusGeometries, e \in BOOLEAN, f \in FailSets :
       SSD1306(g[1], g[2], e, <<0, 0>>, f)
  \/ /\ nops < MaxBusOps
     /\ \E c \in BusCmds, a1 \in BusArgs \cup {NoArg}, a2 \in BusArgs \cup {NoArg}, f \in CmdFailSets :
          WriteCmd(c, a1, a2, f)
  \/ /\ nops < MaxBusOps
     /\ \E v \in BusArgs, f \in CmdFailSets : SetContrast(v, f)
  \/ /\ nops < MaxBusOps
     /\ \E b \in BOOLEAN, f \in CmdFailSets : SetInvert(b, f)

SpecBus == InitNew /\ [][NextBus]_vars

\* every bus write of the most recent operation was accepted
AllOk == \A i \in 1 .. Len(bus) : bus[i].ok

\* the byte sequences of the bus writes of the most recent operation
Sent == [i \in 1 .. Len(bus) |-> bus[i].data]

\* the initialisation sequence the data sheet order asks for
InitSequence(h, ext) ==
  << <<0, 174>>,
     <<0, 213>>, <<0, 128>>,
     <<0, 168>>, <<0, h - 1>>,
     <<0, 211>>, <<0, 0>>,
     <<0, 64>>,
     <<0, 141>>, <<0, IF ext THEN 16 ELSE 20>>,
     <<0, 32>>, <<0, 0>>,
     <<0, 161>>,
     <<0, 200>>,
     <<0, 218>>, <<0, IF h = 64 THEN 18 ELSE 2>>,
     <<0, 129>>, <<0, 255>>,
     <<0, 217>>, <<0, IF ext THEN 34 ELSE 241>>,
     <<0, 219>>, <<0, 64>>,
     <<0, 164>>,
     <<0, 166>>,
     <<0, 175>> >>

\* C1: constructed over a transport that accepts every write, the driver has
\* issued exactly the initialisation sequence, display-off first, display-on
\* last, the charge pump command before display-on.
C1_InitSequence ==
  (last.op = "SSD1306" /\ AllOk) =>
    /\ Sent = InitSequence(height, external_vcc)
    /\ Sent[1] = <<0, 174>>
    /\ Sent[Len(Sent)] = <<0, 175>>
    /\ \E i \in 1 .. Len(Sent) : Sent[i] = <<0, 141>> /\ \A j \in 1 .. i : Sent[j] # <<0, 175>>

C1_Witness ==
  /\ last.op = "SSD1306"
  /\ AllOk
  /\ Len(bus) = 25
  /\ height = 64
  /\ external_vcc

\* the two-byte units of a command with its arguments
Units(cmd, a1, a2) ==
  <<<<0, cmd>>>> \o (IF a1 >= 0 THEN <<<<0, a1>>>> ELSE <<>>)
                 \o (IF a2 >= 0 THEN <<<<0, a2>>>> ELSE <<>>)

\* a write_cmd call with k arguments: none, the first, or both
CmdCase ==
  /\ last.op = "write_cmd"
  /\ (last.args[3] >= 0 => last.args[2] >= 0)

\* C2: the bus writes of write_cmd are a prefix of the command's units, all
\* of them when every write is accepted; a rejected write is the last one of
\* the command, and write_cmd returns success exactly when every unit was
\* written and accepted.
C2_CmdFraming ==
  CmdCase =>
    LET u == Units(last.args[1], last.args[2], last.args[3])
        n == Len(bus)
    IN  /\ n >= 1 /\ n <= Len(u)
        /\ \A i \in 1 .. n : Sent[i] = u[i]
        /\ \A i \in 1 .. (n - 1) : bus[i].ok
        /\ AllOk => n = Len(u)
        /\ ret <=> (n = Len(u) /\ AllOk)

C2_Witness ==
  /\ CmdCase
  /\ last.args[2] >= 0 /\ last.args[3] >= 0
  /\ Len(bus) = 2
  /\ bus[1].ok /\ ~bus[2].ok
  /\ ~ret

(***************************************************************************)
(* Spec: the whole driver, from construction to render, on small displays. *)
(***************************************************************************)
Geometries == {<<8, 16>>, <<12, 8>>}
Garbages == {<<165, 3>>}
\* bytes lying behind l_font, as some build may lay them out
Junks == {<<0, 0, 0, 0, 0>>, <<127, 127, 127, 127, 127>>, <<1, 2, 4, 8, 16>>}

Init == InitNew

Next ==
  \/ \E g \in Geometries, u \in Garbages : SSD1306(g[1], g[2], FALSE, u, {})
  \/ /\ nops < MaxOps
     /\ Clear
  \/ /\ nops < MaxOps
     /\ \E f \in FailSets : Render(f)
  \/ /\ nops < MaxOps
     /\ SetContrast(5, {})
  \/ /\ nops < MaxOps
     /\ SetInvert(TRUE, {})
  \/ /\ nops < MaxOps
     /\ \E p \in {<<3, 9>>, <<8, 0>>} : SetPixel(p[1], p[2])
  \/ /\ nops < MaxOps
     /\ \E p \in {<<3, 9>>, <<0, 16>>} : ClearPixel(p[1], p[2])
  \/ /\ nops < MaxOps
     /\ \E l \in {<<0, 0, 7, 15, TRUE>>, <<7, 3, 2, 3, FALSE>>} : DrawLine(l[1], l[2], l[3], l[4], l[5])
  \/ /\ nops < MaxOps
     /\ \E filled \in BOOLEAN : DrawBox(1, 1, 4, 5, filled, TRUE)
  \/ /\ nops < MaxOps
     /\ \E s \in BOOLEAN : DrawChar(0, 0, 65, s, <<0, 0, 0, 0, 0>>)
  \/ /\ nops < MaxOps
     /\ DrawText(0, 8, <<72, 105>>, TRUE, <<0, 0, 0, 0, 0>>)

Spec == Init /\ [][Next]_vars

\* the number of pages of the display
PageCount == height \div 8

\* C3: a render whose bus writes are all accepted transmits the page-range
\* command, the column-range command and then one write of
\* width*PageCount+1 bytes: 0x40 followed by the pixel bytes of the buffer,
\* whatever operations came before, clear among them.
C3_RenderFraming ==
  (last.op = "render" /\ AllOk) =>
    /\ Len(bus) = 7
    /\ SubSeq(Sent, 1, 6) = << <<0, 34>>, <<0, 0>>, <<0, PageCount - 1>>,
                               <<0, 33>>, <<0, 0>>, <<0, width - 1>> >>
    /\ Len(Sent[7]) = (width * PageCount) + 1
    /\ Sent[7][1] = 64
    /\ \A i \in 1 .. (width * PageCount) :
         Sent[7][i + 1] = last.pre[i] /\ Sent[7][i + 1] = screen_buffer[i]

C3_Witness ==
  /\ last.op = "render"
  /\ AllOk
  /\ prev.op = "clear"
  /\ last.pre[0] = 0
  /\ Len(bus) = 7

\* C4: a bus write rejected in the command phase of render is the last bus
\* write of that render.
C4_RenderStopsOnFailure ==
  last.op = "render" =>
    \A i \in 1 .. Len(bus) :
      (~bus[i].ok /\ Len(bus[i].data) = 2 /\ bus[i].data[1] = 0) => i = Len(bus)

(***************************************************************************)
(* SpecPixel: set_pixel and clear_pixel on a constructed display, whatever *)
(* its buffer holds.                                                       *)
(***************************************************************************)
PixelGeometries == {<<4, 16>>}
PixelGarbages == {<<0, 0>>, <<255, 0>>, <<165, 37>>}
PixelXs == {0, 3, 4, 255}
PixelYs == {0, 7, 8, 15, 16, 255}

InitPixel == InitReady(PixelGeometries, {FALSE}, PixelGarbages, {{}})

NextPixel ==
  \/ /\ nops < MaxPixelOps
     /\ \E x \in PixelXs, y \in PixelYs : SetPixel(x, y)
  \/ /\ nops < MaxPixelOps
     /\ \E x \in PixelXs, y \in PixelYs : ClearPixel(x, y)

SpecPixel == InitPixel /\ [][NextPixel]_vars

\* the operation was a pixel primitive with co-ordinates on the display
OnScreenPixelOp(r) ==
  /\ r.op \in {"set_pixel", "clear_pixel"}
  /\ r.args[1] < width
  /\ r.args[2] < height

\* bit b of pixel byte i of buffer buf
PixelBit(buf, i, b) == Bit(buf[i + 1], b)

\* every bit of every pixel byte of buffer now is the bit of buffer before,
\* but bit b of byte i, which is v
OnlyBit(before, now, i, b, v) ==
  /\ DOMAIN now = DOMAIN before
  /\ now[0] = before[0]
  /\ \A j \in 0 .. ((width * PageCount) - 1), k \in 0 .. 7 :
       PixelBit(now, j, k) = IF j = i /\ k = b THEN v ELSE PixelBit(before, j, k)

\* C8: on the display, set_pixel sets and clear_pixel clears bit y mod 8 of
\* pixel byte width*(y div 8)+x, an index inside the pixel bytes, and no
\* other bit changes; off the display both leave the buffer as it was.
C8_PixelBit ==
  (last.op \in {"set_pixel", "clear_pixel"}) =>
    LET x == last.args[1]
        y == last.args[2]
        i == (width * (y \div 8)) + x
    IN  IF x < width /\ y < height
          THEN /\ i >= 0 /\ i < width * PageCount
               /\ OnlyBit(last.pre, screen_buffer, i, y % 8,
                          IF last.op = "set_pixel" THEN 1 ELSE 0)
          ELSE screen_buffer = last.pre

C8_Witness ==
  /\ last.op = "set_pixel"
  /\ last.args = <<3, 15>>
  /\ PixelBit(last.pre, 7, 7) = 0
  /\ PixelBit(screen_buffer, 7, 7) = 1
  /\ last.pre[8] # 0

\* set_pixel then clear_pixel, or clear_pixel then set_pixel, of one pixel on the display
PixelPair ==
  /\ OnScreenPixelOp(last)
  /\ OnScreenPixelOp(prev)
  /\ last.op # prev.op
  /\ last.args = prev.args

\* C9 as stated: the pair leaves the buffer as it was before the pair.
C9_PairRestores == PixelPair => screen_buffer = prev.pre

\* C9 as amended: the pair leaves every other bit as it was and the targeted
\* bit as the second operation writes it, so the buffer is as before the pair
\* exactly when the targeted bit had that value.
C9_PairKeepsSecond ==
  PixelPair =>
    LET x == last.args[1]
        y == last.args[2]
        i == (width * (y \div 8)) + x
        v == IF last.op = "set_pixel" THEN 1 ELSE 0
    IN  /\ OnlyBit(prev.pre, screen_buffer, i, y % 8, v)
        /\ (screen_buffer = prev.pre) <=> (PixelBit(prev.pre, i, y % 8) = v)

C9_Witness ==
  /\ PixelPair
  /\ prev.op = "set_pixel"
  /\ last.op = "clear_pixel"
  /\ screen_buffer # prev.pre

(***************************************************************************)
(* SpecLine: draw_line between points anywhere in the co-ordinate range.   *)
(***************************************************************************)
LineGeometries == {<<16, 16>>}
LineGarbages == {<<0, 0>>, <<255, 0>>}
LineCoords == (0 .. MaxLineCoord) \cup {15, 16, 100} \cup ((255 - MaxLineCoord) .. 255)

InitLine == InitReady(LineGeometries, {FALSE}, LineGarbages, {{}})

NextLine ==
  /\ nops < MaxLineOps
  /\ \E x1 \in LineCoords, y1 \in LineCoords, x2 \in LineCoords, y2 \in LineCoords, s \in BOOLEAN :
       DrawLine(x1, y1, x2, y2, s)

SpecLine == InitLine /\ [][NextLine]_vars

\* the pixel at (px, py), a point on the display, is on in buffer buf
Lit(buf, px, py) == PixelBit(buf, (width * (py \div 8)) + px, py % 8) = 1

\* the pixel at (px, py) is as p_set asks, or the point is off the display
Drawn(buf, px, py, p_set) ==
  (px < width /\ py < height) => (Lit(buf, px, py) <=> p_set)

\* C10: the stepping loop of draw_line ends, standing on (x2, y2), and on
\* return the pixels at both end points are set (cleared when p_set is
\* false) where they lie on the display.
C10_LineReachesEnd ==
  last.op = "draw_line" =>
    /\ last.res[1]
    /\ pc = "ready"
    /\ last.res[2] = last.args[3]
    /\ last.res[3] = last.args[4]
    /\ Drawn(screen_buffer, last.args[1], last.args[2], last.args[5])
    /\ Drawn(screen_buffer, last.args[3], last.args[4], last.args[5])

C10_Witness ==
  /\ last.op = "draw_line"
  /\ last.args = <<255, 1, 0, 0, TRUE>>
  /\ last.res[1]
  /\ last.res[4] = 255
  /\ ~Lit(last.pre, 0, 0)
  /\ Lit(screen_buffer, 0, 0)

(***************************************************************************)
(* SpecBox: draw_box on a constructed display, cleared or not.             *)
(***************************************************************************)
BoxGeometries == {<<32, 24>>}
BoxGarbages == {<<0, 0>>, <<255, 0>>}
\* x, y, width, height
BoxShapes ==
  { <<10, 10, 20, 6>>, <<0, 0, 20, 6>>, <<0, 0, 20, 254>>, <<0, 0, 20, 255>>,
    <<10, 10, 245, 6>>, <<0, 10, 31, 245>>, <<10, 10, 20, 250>>, <<3, 2, 0, 0>> }

InitBox == InitReady(BoxGeometries, {FALSE}, BoxGarbages, {{}})

NextBox ==
  \/ /\ nops < MaxBoxOps
     /\ Clear
  \/ /\ nops < MaxBoxOps
     /\ \E b \in BoxShapes, filled \in BOOLEAN, s \in BOOLEAN :
          DrawBox(b[1], b[2], b[3], b[4], filled, s)

SpecBox == InitBox /\ [][NextBox]_vars

\* no pixel byte of buffer buf has a bit set
Blank(buf) == \A i \in 0 .. ((width * PageCount) - 1) : buf[i + 1] = 0

\* the points of the display
OnScreen == (0 .. (width - 1)) \X (0 .. (height - 1))

InRect(p, x, y, w, h) == p[1] >= x /\ p[1] <= x + w /\ p[2] >= y /\ p[2] <= y + h

OnPerimeter(p, x, y, w, h) ==
  /\ InRect(p, x, y, w, h)
  /\ (p[1] = x \/ p[1] = x + w \/ p[2] = y \/ p[2] = y + h)

\* C7: on a cleared buffer, with x+w and y+h at most 255, a filled box
\* lights exactly the points of the rectangle x..x+w by y..y+h that are on
\* the display, and an outline box exactly those on its perimeter.
C7_BoxExact ==
  ( /\ last.op = "draw_box"
    /\ Blank(last.pre)
    /\ last.args[6]
    /\ last.args[1] + last.args[3] <= 255
    /\ last.args[2] + last.args[4] <= 255 ) =>
      /\ last.res[1]
      /\ \A p \in OnScreen :
           Lit(screen_buffer, p[1], p[2]) <=>
             IF last.args[5]
               THEN InRect(p, last.args[1], last.args[2], last.args[3], last.args[4])
               ELSE OnPerimeter(p, last.args[1], last.args[2], last.args[3], last.args[4])

(***************************************************************************)
(* SpecText: draw_char and draw_text on a constructed display.             *)
(***************************************************************************)
TextGeometries == {<<32, 16>>}
TextGarbages == {<<0, 0>>, <<255, 0>>}
TextXs == {0, 30, 254}
TextYs == {0, 12}
\* a control code, space, 'A', 'H', '~', DEL and a code above the ASCII range
CharCodes == {1, 32, 65, 72, 126, 127, 200}
\* "AB", "H", a control code, and a text that runs past column 255
Texts == {<<65, 66>>, <<72>>, <<1>>, [i \in 1 .. MaxTextLen |-> 33 + i]}

InitText == InitReady(TextGeometries, {FALSE}, TextGarbages, {{}})

NextText ==
  \/ /\ nops < MaxTextOps
     /\ \E x \in TextXs, y \in TextYs, c \in CharCodes, s \in BOOLEAN, j \in Junks :
          DrawChar(x, y, c, s, j)
  \/ /\ nops < MaxTextOps
     /\ \E x \in TextXs, y \in TextYs, t \in Texts, s \in BOOLEAN, j \in Junks :
          DrawText(x, y, t, s, j)

SpecText == InitText /\ [][NextText]_vars

\* the printable characters
Printable == 32 .. 126

\* the reserved undefined glyph: the entry of the table that follows '~'
UndefinedGlyph == l_font[Len(l_font)]

\* the cells of a glyph: columns 0..4, rows 0..6
Cells == (0 .. 4) \X (0 .. 6)

\* C5: for a character code outside 0x20..0x7E the glyph index stays inside
\* the table, and draw_char changes exactly the pixels the undefined glyph
\* prescribes.
C5_UndefinedGlyph ==
  (last.op = "draw_char" /\ last.args[3] \notin Printable) =>
    /\ GlyphIndex(last.args[3]) < Len(l_font)
    /\ \A p \in OnScreen :
         Lit(screen_buffer, p[1], p[2]) <=>
           IF \E c \in Cells :
                /\ GlyphBit(UndefinedGlyph, c[1], c[2])
                /\ p[1] = U8(last.args[1] + c[1])
                /\ p[2] = U8(last.args[2] + c[2])
             THEN last.args[4]
             ELSE Lit(last.pre, p[1], p[2])

\* the glyph of a printable character
GlyphOf(ch) == l_font[(ch - 32) + 1]

\* C6: draw_text of printable characters draws character i at x + 6*i, the
\* cells whose column x + 6*i + c is at or beyond the display width being
\* clipped: nothing wraps to the left of the display.
C6_TextClips ==
  ( /\ last.op = "draw_text"
    /\ \A i \in 1 .. Len(last.args[3]) : last.args[3][i] \in Printable
    /\ last.args[2] + 6 <= 255 ) =>
      \A p \in OnScreen :
        Lit(screen_buffer, p[1], p[2]) <=>
          IF \E i \in 1 .. Len(last.args[3]), c \in Cells :
               /\ GlyphBit(GlyphOf(last.args[3][i]), c[1], c[2])
               /\ p[1] = last.args[1] + (6 * (i - 1)) + c[1]
               /\ p[2] = last.args[2] + c[2]
            THEN last.args[4]
            ELSE Lit(last.pre, p[1], p[2])


\* a draw_char of a printable character whose 5 by 7 cell does not pass
\* column or row 255
PrintableCharOp ==
  /\ last.op = "draw_char"
  /\ last.args[3] \in Printable
  /\ last.args[1] + 4 <= 255
  /\ last.args[2] + 6 <= 255

\* the display pixels are as a draw_char leaves them when cell (c, r) is
\* drawn exactly if bit BitOf[r] of the glyph's column c is 1
CellsDrawnBy(BitOf) ==
  \A p \in OnScreen :
    Lit(screen_buffer, p[1], p[2]) <=>
      IF \E c \in Cells :
           /\ Bit(GlyphOf(last.args[3])[c[1] + 1], BitOf[c[2]]) = 1
           /\ p[1] = last.args[1] + c[1]
           /\ p[2] = last.args[2] + c[2]
        THEN last.args[4]
        ELSE Lit(last.pre, p[1], p[2])

\* C11 as stated: the pixel at (x + c, y + r) is set (cleared when set is
\* false) exactly if bit r of the glyph's column c is 1, bit 0 being the top
\* row; every other pixel is unchanged.
C11_Bit0IsTopRow ==
  PrintableCharOp => CellsDrawnBy([r \in 0 .. 6 |-> r])

\* C11: for a printable character with x + 4 <= 255 and y + 6 <= 255, the
\* pixel at (x + c, y + r) is set (cleared when set is false) exactly if bit
\* 6 - r of the glyph's column c is 1, bit 6 being the top row and bit 0 the
\* bottom row; every other pixel is unchanged.
C11_Bit6IsTopRow ==
  PrintableCharOp => CellsDrawnBy([r \in 0 .. 6 |-> 6 - r])

\* 'A' drawn at the origin of a dark display: its first column 0011111
\* lights rows 2..6 and leaves rows 0 and 1 dark
C11_Witness ==
  /\ last.op = "draw_char"
  /\ last.args[1] = 0 /\ last.args[2] = 0 /\ last.args[3] = 65 /\ last.args[4]
  /\ ~Lit(last.pre, 0, 0) /\ ~Lit(last.pre, 0, 6)
  /\ ~Lit(screen_buffer, 0, 0)
  /\ Lit(screen_buffer, 0, 6)


\* C12: draw_box honours p_set in both modes: with p_set false every pixel
\* the call changes ends cleared, and a filled box leaves every pixel of its
\* rectangle that is on the display off.
C12_BoxHonoursSet ==
  ( /\ last.op = "draw_box"
    /\ ~last.args[6]
    /\ last.args[1] + last.args[3] <= 255
    /\ last.args[2] + last.args[4] <= 255 ) =>
      \A p \in OnScreen :
        /\ (Lit(screen_buffer, p[1], p[2]) # Lit(last.pre, p[1], p[2]))
             => ~Lit(screen_buffer, p[1], p[2])
        /\ ( /\ last.args[5]
             /\ InRect(p, last.args[1], last.args[2], last.args[3], last.args[4]) )
             => ~Lit(screen_buffer, p[1], p[2])

====
